---- MODULE Spec2Model ----
(***************************************************************************)
(* Model of src/lib/core/option/option.ts: the MdOption widget (selection, *)
(* disabled derivation, keyboard activation, generated ids, selection      *)
(* change events) and the package build task factory                       *)
(* createPackageBuildTasks that is kept in the same file.                  *)
(***************************************************************************)
EXTENDS Integers, Sequences, FiniteSets, TLC

VARIABLES
  _uniqueIdCounter,  \* module-level counter shared by all MdOption instances
  options,           \* the MdOption instances created so far, in creation order
  optgroup,          \* the MdOptgroup instance options may be placed in
  last,              \* what the most recent operation on an option did
  prior,             \* the selected value before the operation preceding `last`,
                     \* when that one was an effective multiple-mode interaction
  packages,          \* arguments of the createPackageBuildTasks calls, per package
  target,            \* the task the task runner was asked to run
  status,            \* per gulp task: idle, waiting, running, ok or failed
  step,              \* per sequence task: the step of its sequence it is at
  stopped,           \* a task has failed and the task runner starts nothing new
  tscResult,         \* per package: the promises of its tsc compilations
  bundleResult       \* per package: the promises of its bundle builds

optionVars == <<_uniqueIdCounter, options, optgroup, last, prior>>
buildVars == <<packages, target, status, step, stopped, tscResult, bundleResult>>
vars == <<optionVars, buildVars>>

(***************************************************************************)
(* Bounds of the model.                                                    *)
(***************************************************************************)
MaxOptions == 2

(***************************************************************************)
(* Key codes (../keyboard/keycodes) and the key codes tried as input.      *)
(***************************************************************************)
ENTER == 13
SPACE == 32
\* Enter, Space and a key that is neither (Tab)
KeyCodes == {ENTER, SPACE, 9}

(***************************************************************************)
(* JavaScript values handed to the `disabled` input, and their coercion.   *)
(***************************************************************************)
JsValues == {"true", "false", "null", "''", "'false'"}

\* `${value}` of a JavaScript value
JsToString(value) ==
  CASE value = "''" -> ""
    [] value = "'false'" -> "false"
    [] OTHER -> value

coerceBooleanProperty(value) ==
  value # "null" /\ JsToString(value) # "false"

(***************************************************************************)
(* The optional parent group.                                              *)
(***************************************************************************)
NoGroup == "null"
TheGroup == "optgroup"

\* get disabled() looking at the own flag only
disabled_OwnFlagOnly(this) == options[this]._disabled

\* get disabled()
disabled(this) ==
  IF options[this].group # NoGroup /\ optgroup.disabled
    THEN optgroup.disabled
    ELSE options[this]._disabled

\* get multiple()
multiple(this) == options[this]._multiple

\* get selected()
selected(this) == options[this]._selected

\* get id()
id(this) == options[this]._id

\* _getTabIndex() reading the own flag instead of the getter
_getTabIndex_OwnFlagOnly(this) == IF options[this]._disabled THEN "-1" ELSE "0"

\* _getTabIndex()
_getTabIndex(this) == IF disabled(this) THEN "-1" ELSE "0"

(***************************************************************************)
(* Events.  `seen` is source.selected as a listener reads it during the    *)
(* emission; `emitter` is the instance whose onSelectionChange emits.      *)
(***************************************************************************)
MdOptionSelectionChange(source, isUserInput) ==
  [source |-> source, isUserInput |-> isUserInput]

\* _emitSelectionChangeEvent dropping its argument
_emitSelectionChangeEvent_DefaultFlag(this, isUserInput, opts) ==
  [emitter |-> this,
   event |-> MdOptionSelectionChange(this, FALSE),
   seen |-> opts[this]._selected]

_emitSelectionChangeEvent(this, isUserInput, opts) ==
  [emitter |-> this,
   event |-> MdOptionSelectionChange(this, isUserInput),
   seen |-> opts[MdOptionSelectionChange(this, isUserInput).source]._selected]

\* What an operation did: the instance it ran on, the instance as the
\* operation found it (with the value its disabled getter had), the events it
\* emitted in order, the markForCheck calls it made and whether it called
\* preventDefault on the keyboard event.
Record(op, this, keyCode, emitted, marks, prevented) ==
  [op |-> op, opt |-> this, keyCode |-> keyCode,
   pre |-> [option |-> options[this], disabled |-> disabled(this)],
   emitted |-> emitted, marks |-> marks, prevented |-> prevented]

\* an operation that ran on no instance
NoRecord(op, this) ==
  [op |-> op, opt |-> this, keyCode |-> 0,
   pre |-> [option |-> <<>>, disabled |-> FALSE],
   emitted |-> <<>>, marks |-> 0, prevented |-> FALSE]

NoPrior == [opt |-> 0, selected |-> FALSE]

(***************************************************************************)
(* Construction.                                                           *)
(***************************************************************************)
\* construction that reads the counter of the module as it was loaded
NewMdOption_StaleCounter(group) ==
  [_selected |-> FALSE, _active |-> FALSE, _multiple |-> FALSE,
   _disableRipple |-> FALSE, _disabled |-> FALSE,
   _id |-> <<"md-option-", 0>>, group |-> group]

\* field initialisers and constructor of MdOption
NewMdOption(group) ==
  [_selected |-> FALSE, _active |-> FALSE, _multiple |-> FALSE,
   _disableRipple |-> FALSE, _disabled |-> FALSE,
   _id |-> <<"md-option-", _uniqueIdCounter>>, group |-> group]

Create(group) ==
  /\ Len(options) < MaxOptions
  /\ options' = Append(options, NewMdOption(group))
  /\ _uniqueIdCounter' = _uniqueIdCounter + 1
  /\ last' = NoRecord("new", Len(options) + 1)
  /\ prior' = NoPrior
  /\ UNCHANGED <<optgroup, buildVars>>

(***************************************************************************)
(* Setters.                                                                *)
(***************************************************************************)
\* set multiple(value) dropping the selection when the mode changes
SetMultiple_ClearsSelection(this, value) ==
  /\ options' = IF value # options[this]._multiple
                  THEN [options EXCEPT ![this]._multiple = value,
                                       ![this]._selected = FALSE]
                  ELSE options
  /\ last' = Record("set multiple", this, 0, <<>>,
                    IF value # options[this]._multiple THEN 1 ELSE 0, FALSE)
  /\ prior' = NoPrior
  /\ UNCHANGED <<_uniqueIdCounter, optgroup, buildVars>>

\* set multiple(value)
SetMultiple(this, value) ==
  /\ options' = IF value # options[this]._multiple
                  THEN [options EXCEPT ![this]._multiple = value]
                  ELSE options
  /\ last' = Record("set multiple", this, 0, <<>>,
                    IF value # options[this]._multiple THEN 1 ELSE 0, FALSE)
  /\ prior' = NoPrior
  /\ UNCHANGED <<_uniqueIdCounter, optgroup, buildVars>>

\* set disabled(value)
SetDisabled(this, value) ==
  /\ options' = [options EXCEPT ![this]._disabled = coerceBooleanProperty(value)]
  /\ last' = Record("set disabled", this, 0, <<>>, 0, FALSE)
  /\ prior' = NoPrior
  /\ UNCHANGED <<_uniqueIdCounter, optgroup, buildVars>>

\* the parent group's disabled flag changes
SetGroupDisabled(value) ==
  /\ optgroup' = [optgroup EXCEPT !.disabled = value]
  /\ last' = NoRecord("set group disabled", 0)
  /\ prior' = NoPrior
  /\ UNCHANGED <<_uniqueIdCounter, options, buildVars>>

\* set disableRipple(value)
SetDisableRipple(this, value) ==
  /\ options' = [options EXCEPT ![this]._disableRipple = value]
  /\ last' = Record("set disableRipple", this, 0, <<>>, 1, FALSE)
  /\ prior' = NoPrior
  /\ UNCHANGED <<_uniqueIdCounter, optgroup, buildVars>>

(***************************************************************************)
(* Focus and active styles.                                                *)
(***************************************************************************)
\* focus(): the host element takes the focus, no field of the option changes
focus(this) ==
  /\ last' = Record("focus", this, 0, <<>>, 0, FALSE)
  /\ prior' = NoPrior
  /\ UNCHANGED <<_uniqueIdCounter, options, optgroup, buildVars>>

\* setActiveStyles() asking for change detection on every call
setActiveStyles_AlwaysMarks(this) ==
  /\ options' = [options EXCEPT ![this]._active = TRUE]
  /\ last' = Record("setActiveStyles", this, 0, <<>>, 1, FALSE)
  /\ prior' = NoPrior
  /\ UNCHANGED <<_uniqueIdCounter, optgroup, buildVars>>

\* setActiveStyles()
setActiveStyles(this) ==
  /\ options' = IF ~options[this]._active
                  THEN [options EXCEPT ![this]._active = TRUE]
                  ELSE options
  /\ last' = Record("setActiveStyles", this, 0, <<>>,
                    IF ~options[this]._active THEN 1 ELSE 0, FALSE)
  /\ prior' = NoPrior
  /\ UNCHANGED <<_uniqueIdCounter, optgroup, buildVars>>

\* setInactiveStyles() without its markForCheck call
setInactiveStyles_NoMark(this) ==
  /\ options' = IF options[this]._active
                  THEN [options EXCEPT ![this]._active = FALSE]
                  ELSE options
  /\ last' = Record("setInactiveStyles", this, 0, <<>>, 0, FALSE)
  /\ prior' = NoPrior
  /\ UNCHANGED <<_uniqueIdCounter, optgroup, buildVars>>

\* setInactiveStyles()
setInactiveStyles(this) ==
  /\ options' = IF options[this]._active
                  THEN [options EXCEPT ![this]._active = FALSE]
                  ELSE options
  /\ last' = Record("setInactiveStyles", this, 0, <<>>,
                    IF options[this]._active THEN 1 ELSE 0, FALSE)
  /\ prior' = NoPrior
  /\ UNCHANGED <<_uniqueIdCounter, optgroup, buildVars>>

(***************************************************************************)
(* Programmatic selection.                                                 *)
(***************************************************************************)
\* select() emitting before it assigns
select_EmitsFirst(this) ==
  LET opts1 == [options EXCEPT ![this]._selected = TRUE]
  IN /\ options' = opts1
     /\ last' = Record("select", this, 0,
                       <<_emitSelectionChangeEvent(this, FALSE, options)>>, 1, FALSE)
     /\ prior' = NoPrior
     /\ UNCHANGED <<_uniqueIdCounter, optgroup, buildVars>>

\* select()
select(this) ==
  LET opts1 == [options EXCEPT ![this]._selected = TRUE]
  IN /\ options' = opts1
     /\ last' = Record("select", this, 0,
                       <<_emitSelectionChangeEvent(this, FALSE, opts1)>>, 1, FALSE)
     /\ prior' = NoPrior
     /\ UNCHANGED <<_uniqueIdCounter, optgroup, buildVars>>

\* deselect() doing nothing on a disabled option
deselect_IgnoredWhenDisabled(this) ==
  LET opts1 == [options EXCEPT ![this]._selected = FALSE]
  IN /\ options' = IF disabled(this) THEN options ELSE opts1
     /\ last' = Record("deselect", this, 0,
                       IF disabled(this) THEN <<>>
                       ELSE <<_emitSelectionChangeEvent(this, FALSE, opts1)>>,
                       IF disabled(this) THEN 0 ELSE 1, FALSE)
     /\ prior' = NoPrior
     /\ UNCHANGED <<_uniqueIdCounter, optgroup, buildVars>>

\* deselect()
deselect(this) ==
  LET opts1 == [options EXCEPT ![this]._selected = FALSE]
  IN /\ options' = opts1
     /\ last' = Record("deselect", this, 0,
                       <<_emitSelectionChangeEvent(this, FALSE, opts1)>>, 1, FALSE)
     /\ prior' = NoPrior
     /\ UNCHANGED <<_uniqueIdCounter, optgroup, buildVars>>

(***************************************************************************)
(* Interactive selection.                                                  *)
(***************************************************************************)
\* _selectViaInteraction() without the disabled check
_selectViaInteraction_Unguarded(this) ==
  LET opts1 == [options EXCEPT ![this]._selected =
                  IF multiple(this) THEN ~options[this]._selected ELSE TRUE]
  IN [options |-> opts1,
      emitted |-> <<_emitSelectionChangeEvent(this, TRUE, opts1)>>,
      marks |-> 1]

\* _selectViaInteraction() toggling in either mode
_selectViaInteraction_AlwaysToggles(this) ==
  IF ~disabled(this)
    THEN LET opts1 == [options EXCEPT ![this]._selected = ~options[this]._selected]
         IN [options |-> opts1,
             emitted |-> <<_emitSelectionChangeEvent(this, TRUE, opts1)>>,
             marks |-> 1]
    ELSE [options |-> options, emitted |-> <<>>, marks |-> 0]

\* _selectViaInteraction() selecting in either mode
_selectViaInteraction_NeverToggles(this) ==
  IF ~disabled(this)
    THEN LET opts1 == [options EXCEPT ![this]._selected = TRUE]
         IN [options |-> opts1,
             emitted |-> <<_emitSelectionChangeEvent(this, TRUE, opts1)>>,
             marks |-> 1]
    ELSE [options |-> options, emitted |-> <<>>, marks |-> 0]

\* _selectViaInteraction() with only the assignment under the disabled check
_selectViaInteraction_EmitsWhenDisabled(this) ==
  LET opts1 == IF ~disabled(this)
                 THEN [options EXCEPT ![this]._selected =
                         IF multiple(this) THEN ~options[this]._selected ELSE TRUE]
                 ELSE options
  IN [options |-> opts1,
      emitted |-> <<_emitSelectionChangeEvent(this, TRUE, opts1)>>,
      marks |-> 1]

\* _selectViaInteraction(): the instances, events and markForCheck calls it
\* leaves behind
_selectViaInteraction(this) ==
  IF ~disabled(this)
    THEN LET opts1 == [options EXCEPT ![this]._selected =
                         IF multiple(this) THEN ~options[this]._selected ELSE TRUE]
         IN [options |-> opts1,
             emitted |-> <<_emitSelectionChangeEvent(this, TRUE, opts1)>>,
             marks |-> 1]
    ELSE [options |-> options, emitted |-> <<>>, marks |-> 0]

\* the selected value `this` had before the operation in `last`, when that
\* was an interactive selection of `this` in multiple mode that was not ignored
PriorOf(this) ==
  IF /\ last.op \in {"click", "keydown"}
     /\ last.opt = this
     /\ last.op = "keydown" => last.keyCode \in {ENTER, SPACE}
     /\ ~last.pre.disabled
     /\ last.pre.option._multiple
    THEN [opt |-> this, selected |-> last.pre.option._selected]
    ELSE NoPrior

\* host binding '(click)': '_selectViaInteraction()'
Click(this) ==
  LET r == _selectViaInteraction(this)
  IN /\ options' = r.options
     /\ last' = Record("click", this, 0, r.emitted, r.marks, FALSE)
     /\ prior' = PriorOf(this)
     /\ UNCHANGED <<_uniqueIdCounter, optgroup, buildVars>>

\* _handleKeydown reacting to Enter only
_handleKeydown_EnterOnly(this, keyCode) ==
  LET hit == keyCode = ENTER
      r == IF hit THEN _selectViaInteraction(this)
                  ELSE [options |-> options, emitted |-> <<>>, marks |-> 0]
  IN /\ options' = r.options
     /\ last' = Record("keydown", this, keyCode, r.emitted, r.marks, hit)
     /\ prior' = IF hit THEN PriorOf(this) ELSE NoPrior
     /\ UNCHANGED <<_uniqueIdCounter, optgroup, buildVars>>

\* host binding '(keydown)': '_handleKeydown($event)'
_handleKeydown(this, keyCode) ==
  LET hit == keyCode = ENTER \/ keyCode = SPACE
      r == IF hit THEN _selectViaInteraction(this)
                  ELSE [options |-> options, emitted |-> <<>>, marks |-> 0]
  IN /\ options' = r.options
     /\ last' = Record("keydown", this, keyCode, r.emitted, r.marks, hit)
     /\ prior' = IF hit THEN PriorOf(this) ELSE NoPrior
     /\ UNCHANGED <<_uniqueIdCounter, optgroup, buildVars>>

(***************************************************************************)
(* The package build tasks registered by createPackageBuildTasks.          *)
(* A task is <<packageName, name>> for the gulp task                       *)
(* `${packageName}:${name}`.                                               *)
(***************************************************************************)
MaxEntryPoints == 2

Packages == {"cdk", "material", "material-examples"}

TaskNames == {"clean-build", "build", "build-tests", "build-release:clean",
              "build-release", "build:esm", "build:esm:tests", "build:bundles",
              "assets", "assets:scss", "assets:copy-styles", "assets:html",
              "assets:inline"}

\* the task 'clean', which no package owns
CleanTask == <<"gulp", "clean">>

Tasks == (Packages \X TaskNames) \cup {CleanTask}

\* getSecondaryEntryPointsForPackage(packageName), as positions in the list
SecondaryEntryPoints(packageName) == 1..packages[packageName].entryPoints

\* the arguments of sequenceTask with the required packages in one parallel step
BuildSequence_DependenciesInParallel(packageName) ==
  <<{<<packages[packageName].dependencies[i], "build">> :
       i \in 1..Len(packages[packageName].dependencies)},
    {<<packageName, "build:esm">>, <<packageName, "assets">>},
    {<<packageName, "assets:inline">>},
    {<<packageName, "build:bundles">>}>>

\* the arguments of sequenceTask with assets:inline put in the parallel step
BuildSequence_InlineInParallel(packageName) ==
  [i \in 1..Len(packages[packageName].dependencies) |->
     {<<packages[packageName].dependencies[i], "build">>}]
  \o <<{<<packageName, "build:esm">>, <<packageName, "assets">>,
        <<packageName, "assets:inline">>},
       {<<packageName, "build:bundles">>}>>

\* the arguments of sequenceTask in `${packageName}:build`
BuildSequence(packageName) ==
  [i \in 1..Len(packages[packageName].dependencies) |->
     {<<packages[packageName].dependencies[i], "build">>}]
  \o <<{<<packageName, "build:esm">>, <<packageName, "assets">>},
       {<<packageName, "assets:inline">>},
       {<<packageName, "build:bundles">>}>>

\* the arguments of sequenceTask in `${packageName}:build-tests`
BuildTestsSequence(packageName) ==
  [i \in 1..Len(packages[packageName].dependencies) |->
     {<<packages[packageName].dependencies[i], "build-tests">>}]
  \o <<{<<packageName, "build:esm:tests">>, <<packageName, "assets">>},
       {<<packageName, "assets:inline">>}>>

\* the arguments of sequenceTask in `${packageName}:clean-build`
CleanBuildSequence(packageName) == <<{CleanTask}, {<<packageName, "build">>}>>

\* the arguments of sequenceTask in `${packageName}:build-release:clean`
ReleaseCleanSequence(packageName) ==
  <<{CleanTask}, {<<packageName, "build-release">>}>>

\* the tasks registered as sequenceTask(...)
IsSequence(t) ==
  t[2] \in {"build", "build-tests", "clean-build", "build-release:clean"}

Sequence(t) ==
  CASE t[2] = "build" -> BuildSequence(t[1])
    [] t[2] = "build-tests" -> BuildTestsSequence(t[1])
    [] t[2] = "clean-build" -> CleanBuildSequence(t[1])
    [] t[2] = "build-release:clean" -> ReleaseCleanSequence(t[1])
    [] OTHER -> <<>>

\* build-release registered without its dependency on the build
TaskDeps_ReleaseWithoutBuild(t) ==
  CASE t[2] = "assets" ->
         {<<t[1], "assets:scss">>, <<t[1], "assets:copy-styles">>,
          <<t[1], "assets:html">>}
    [] OTHER -> {}

\* the dependency list given to task(name, [...])
TaskDeps(t) ==
  CASE t[2] = "assets" ->
         {<<t[1], "assets:scss">>, <<t[1], "assets:copy-styles">>,
          <<t[1], "assets:html">>}
    [] t[2] = "build-release" -> {<<t[1], "build">>}
    [] OTHER -> {}

\* the tasks registered with a function of their own
HasFn(t) == ~IsSequence(t) /\ t[2] # "assets"

\* the package whose secondary entry points `${packageName}:build:bundles` bundles
SecondaryBundlesPackage(packageName) == "cdk"

(***************************************************************************)
(* Promises: none (not created), pending, resolved, rejected.              *)
(***************************************************************************)
\* `error` is the reason the promise of build:esm was rejected with
NoError == <<"none", 0>>
NoTsc == [primary |-> "none", secondary |-> <<>>, error |-> NoError]
NoBundles == [primary |-> "none", secondary |-> "none", secondaryOf |-> "none"]

\* Promise.all([...]) over the given promise states
PromiseAll(states) ==
  IF "rejected" \in states THEN "rejected"
  ELSE IF states \subseteq {"resolved"} THEN "resolved"
  ELSE "pending"

\* compileSecondaryEntryPointsEsm as a promise: the loop awaits each tsc in turn
compileSecondaryEntryPointsEsm(packageName, results) ==
  IF \E i \in DOMAIN results : results[i] = "rejected" THEN "rejected"
  ELSE IF \A i \in SecondaryEntryPoints(packageName) :
            i \in DOMAIN results /\ results[i] = "resolved" THEN "resolved"
  ELSE "pending"

\* the promise `${packageName}:build:esm` returns
EsmPromise(packageName, tsc) ==
  IF packages[packageName].useSecondaryEntryPoints
    THEN PromiseAll({compileSecondaryEntryPointsEsm(packageName, tsc.secondary),
                     tsc.primary})
    ELSE tsc.primary

\* the promise `${packageName}:build:bundles` returns
BundlesPromise(packageName, b) ==
  IF packages[packageName].useSecondaryEntryPoints
    THEN PromiseAll({b.primary, b.secondary})
    ELSE b.primary

\* the reason the promise of build:esm is rejected with: that of the first
\* promise under it to be rejected
EsmError(packageName, old, new, reason) ==
  IF EsmPromise(packageName, old) # "rejected"
       /\ EsmPromise(packageName, new) = "rejected"
    THEN reason
    ELSE old.error

\* the status a running task takes from the promise its function returned
Settle(old, promise) ==
  IF old # "running" THEN old
  ELSE IF promise = "resolved" THEN "ok"
  ELSE IF promise = "rejected" THEN "failed"
  ELSE "running"

(***************************************************************************)
(* The task runner.                                                        *)
(***************************************************************************)
\* a task is asked for: the target, a member of the current step of a
\* sequence in progress, or a dependency of a task waiting for its dependencies
Requested(t) ==
  \/ t = target
  \/ \E s \in Tasks :
       /\ status[s] = "waiting"
       /\ \/ IsSequence(s) /\ step[s] \in DOMAIN Sequence(s) /\ t \in Sequence(s)[step[s]]
          \/ t \in TaskDeps(s)

\* build:esm starting the compilations of all secondary entry points at once
StartEsm_AllAtOnce(packageName) ==
  [primary |-> "pending",
   secondary |-> IF packages[packageName].useSecondaryEntryPoints
                   THEN [i \in SecondaryEntryPoints(packageName) |-> "pending"]
                   ELSE <<>>,
   error |-> NoError]

\* the function of `${packageName}:build:esm` up to its return
StartEsm(packageName) ==
  [primary |-> "pending",
   secondary |-> IF packages[packageName].useSecondaryEntryPoints
                      /\ SecondaryEntryPoints(packageName) # {}
                   THEN <<"pending">> ELSE <<>>,
   error |-> NoError]

\* the function of `${packageName}:build:bundles` up to its return
StartBundles(packageName) ==
  [primary |-> "pending",
   secondary |-> IF packages[packageName].useSecondaryEntryPoints
                   THEN "pending" ELSE "none",
   secondaryOf |-> IF packages[packageName].useSecondaryEntryPoints
                     THEN SecondaryBundlesPackage(packageName) ELSE "none"]

\* the task runner starts a task that was asked for
StartTask(t) ==
  /\ ~stopped
  /\ status[t] = "idle"
  /\ Requested(t)
  /\ status' = [status EXCEPT ![t] =
                  IF IsSequence(t) \/ TaskDeps(t) # {} THEN "waiting"
                  ELSE IF t[2] = "build:esm"
                    THEN Settle("running", EsmPromise(t[1], StartEsm(t[1])))
                  ELSE "running"]
  /\ step' = IF IsSequence(t) THEN [step EXCEPT ![t] = 1] ELSE step
  /\ tscResult' = IF t[2] = "build:esm"
                    THEN [tscResult EXCEPT ![t[1]] = StartEsm(t[1])]
                    ELSE tscResult
  /\ bundleResult' = IF t[2] = "build:bundles"
                       THEN [bundleResult EXCEPT ![t[1]] = StartBundles(t[1])]
                       ELSE bundleResult
  /\ UNCHANGED <<packages, target, stopped, optionVars>>

\* sequenceTask: the tasks of the current step are done, the next step begins
\* or the sequence is finished
SequenceStep(t) ==
  /\ ~stopped
  /\ IsSequence(t)
  /\ status[t] = "waiting"
  /\ \A s \in Sequence(t)[step[t]] : status[s] = "ok"
  /\ IF step[t] < Len(Sequence(t))
       THEN step' = [step EXCEPT ![t] = @ + 1] /\ UNCHANGED status
       ELSE status' = [status EXCEPT ![t] = "ok"] /\ UNCHANGED step
  /\ UNCHANGED <<packages, target, stopped, tscResult, bundleResult, optionVars>>

\* sequenceTask: a task failed, the sequence ends with that error
SequenceFail(t) ==
  /\ stopped
  /\ IsSequence(t)
  /\ status[t] = "waiting"
  /\ status' = [status EXCEPT ![t] = "failed"]
  /\ UNCHANGED <<packages, target, step, stopped, tscResult, bundleResult, optionVars>>

\* task(name, [dependencies]): the dependencies are done
DepsDone(t) ==
  /\ ~stopped
  /\ TaskDeps(t) # {}
  /\ status[t] = "waiting"
  /\ \A d \in TaskDeps(t) : status[d] = "ok"
  /\ status' = [status EXCEPT ![t] = IF HasFn(t) THEN "running" ELSE "ok"]
  /\ UNCHANGED <<packages, target, step, stopped, tscResult, bundleResult, optionVars>>

\* the function of a task other than build:esm and build:bundles ends: the
\* stream of an assets task, the promise of assets:inline or build:esm:tests,
\* composeRelease, clean
FinishFn(t, ok) ==
  /\ HasFn(t)
  /\ t[2] \notin {"build:esm", "build:bundles"}
  /\ status[t] = "running"
  /\ status' = [status EXCEPT ![t] = IF ok THEN "ok" ELSE "failed"]
  /\ stopped' = (stopped \/ ~ok)
  /\ UNCHANGED <<packages, target, step, tscResult, bundleResult, optionVars>>

\* tsc of the primary entry point ends
TscPrimary(packageName, ok) ==
  LET t == <<packageName, "build:esm">>
      r1 == [tscResult[packageName] EXCEPT
               !.primary = IF ok THEN "resolved" ELSE "rejected"]
      r == [r1 EXCEPT !.error = EsmError(packageName, tscResult[packageName], r1,
                                         <<"primary", 0>>)]
  IN /\ tscResult[packageName].primary = "pending"
     /\ tscResult' = [tscResult EXCEPT ![packageName] = r]
     /\ status' = [status EXCEPT ![t] = Settle(@, EsmPromise(packageName, r))]
     /\ stopped' = (stopped \/ (status[t] = "running" /\ status'[t] = "failed"))
     /\ UNCHANGED <<packages, target, step, bundleResult, optionVars>>

\* the loop catching the failure of a tsc and going on to the next entry point
TscSecondary_GoesOnAfterFailure(packageName, i, ok) ==
  LET t == <<packageName, "build:esm">>
      sec == tscResult[packageName].secondary
      sec1 == [sec EXCEPT ![i] = IF ok THEN "resolved" ELSE "rejected"]
      sec2 == IF i = Len(sec) /\ i + 1 \in SecondaryEntryPoints(packageName)
                THEN Append(sec1, "pending") ELSE sec1
      r1 == [tscResult[packageName] EXCEPT !.secondary = sec2]
      r == [r1 EXCEPT !.error = EsmError(packageName, tscResult[packageName], r1,
                                         <<"secondary", i>>)]
  IN /\ i \in DOMAIN sec
     /\ sec[i] = "pending"
     /\ tscResult' = [tscResult EXCEPT ![packageName] = r]
     /\ status' = [status EXCEPT ![t] = Settle(@, EsmPromise(packageName, r))]
     /\ stopped' = (stopped \/ (status[t] = "running" /\ status'[t] = "failed"))
     /\ UNCHANGED <<packages, target, step, bundleResult, optionVars>>

\* tsc of a secondary entry point ends; the loop goes on to the next one
TscSecondary(packageName, i, ok) ==
  LET t == <<packageName, "build:esm">>
      sec == tscResult[packageName].secondary
      sec1 == [sec EXCEPT ![i] = IF ok THEN "resolved" ELSE "rejected"]
      sec2 == IF ok /\ i + 1 \in SecondaryEntryPoints(packageName)
                THEN Append(sec1, "pending") ELSE sec1
      r1 == [tscResult[packageName] EXCEPT !.secondary = sec2]
      r == [r1 EXCEPT !.error = EsmError(packageName, tscResult[packageName], r1,
                                         <<"secondary", i>>)]
  IN /\ i \in DOMAIN sec
     /\ sec[i] = "pending"
     /\ tscResult' = [tscResult EXCEPT ![packageName] = r]
     /\ status' = [status EXCEPT ![t] = Settle(@, EsmPromise(packageName, r))]
     /\ stopped' = (stopped \/ (status[t] = "running" /\ status'[t] = "failed"))
     /\ UNCHANGED <<packages, target, step, bundleResult, optionVars>>

\* buildPrimaryEntryPointBundles or buildAllSecondaryEntryPointBundles ends
BundlesDone(packageName, which, ok) ==
  LET t == <<packageName, "build:bundles">>
      r == IF which = "primary"
             THEN [bundleResult[packageName] EXCEPT
                     !.primary = IF ok THEN "resolved" ELSE "rejected"]
             ELSE [bundleResult[packageName] EXCEPT
                     !.secondary = IF ok THEN "resolved" ELSE "rejected"]
  IN /\ bundleResult[packageName][which] = "pending"
     /\ bundleResult' = [bundleResult EXCEPT ![packageName] = r]
     /\ status' = [status EXCEPT ![t] = Settle(@, BundlesPromise(packageName, r))]
     /\ stopped' = (stopped \/ (status[t] = "running" /\ status'[t] = "failed"))
     /\ UNCHANGED <<packages, target, step, tscResult, optionVars>>

(***************************************************************************)
(* The widget as a state machine.                                          *)
(***************************************************************************)
InitOption ==
  /\ _uniqueIdCounter = 0
  /\ options = <<>>
  /\ optgroup = [disabled |-> FALSE]
  /\ last = NoRecord("init", 0)
  /\ prior = NoPrior

\* createPackageBuildTasks not called: no package and no task registered,
\* no build in progress
InitIdle ==
  /\ packages = <<>>
  /\ target = CleanTask
  /\ status = <<>>
  /\ step = <<>>
  /\ stopped = FALSE
  /\ tscResult = <<>>
  /\ bundleResult = <<>>

Init == InitOption /\ InitIdle

Next ==
  \/ \E group \in {NoGroup, TheGroup} : Create(group)
  \/ \E this \in DOMAIN options, value \in BOOLEAN : SetMultiple(this, value)
  \/ \E this \in DOMAIN options, value \in JsValues : SetDisabled(this, value)
  \/ \E value \in BOOLEAN : SetGroupDisabled(value)
  \/ \E this \in DOMAIN options : select(this)
  \/ \E this \in DOMAIN options : deselect(this)
  \/ \E this \in DOMAIN options : Click(this)
  \/ \E this \in DOMAIN options, keyCode \in KeyCodes : _handleKeydown(this, keyCode)

Spec == Init /\ [][Next]_vars

(***************************************************************************)
(* One option, constructed with or without a parent group, under every     *)
(* operation of the widget, those on its active styles, its ripples and    *)
(* its focus included.                                                     *)
(***************************************************************************)
InitStyles ==
  /\ _uniqueIdCounter = 1
  /\ \E group \in {NoGroup, TheGroup} :
       options = <<[_selected |-> FALSE, _active |-> FALSE, _multiple |-> FALSE,
                    _disableRipple |-> FALSE, _disabled |-> FALSE,
                    _id |-> <<"md-option-", 0>>, group |-> group]>>
  /\ optgroup = [disabled |-> FALSE]
  /\ last = NoRecord("new", 1)
  /\ prior = NoPrior
  /\ InitIdle

NextStyles ==
  \/ \E this \in DOMAIN options, value \in BOOLEAN : SetMultiple(this, value)
  \/ \E this \in DOMAIN options, value \in JsValues : SetDisabled(this, value)
  \/ \E this \in DOMAIN options, value \in BOOLEAN : SetDisableRipple(this, value)
  \/ \E value \in BOOLEAN : SetGroupDisabled(value)
  \/ \E this \in DOMAIN options : focus(this)
  \/ \E this \in DOMAIN options : setActiveStyles(this)
  \/ \E this \in DOMAIN options : setInactiveStyles(this)
  \/ \E this \in DOMAIN options : select(this)
  \/ \E this \in DOMAIN options : deselect(this)
  \/ \E this \in DOMAIN options : Click(this)
  \/ \E this \in DOMAIN options, keyCode \in KeyCodes : _handleKeydown(this, keyCode)

SpecStyles == InitStyles /\ [][NextStyles]_vars

(***************************************************************************)
(* The build as a state machine: the packages as the gulpfile registers    *)
(* them (cdk without dependencies, material on top of it or alone) and one *)
(* run of a build target.                                                  *)
(***************************************************************************)
InitBuild ==
  /\ InitOption
  /\ \E d \in {<<>>, <<"cdk">>}, n \in 0..MaxEntryPoints,
        u \in [{"cdk", "material"} -> BOOLEAN] :
       packages = [p \in Packages |->
                     [dependencies |-> IF p = "material" THEN d ELSE <<>>,
                      useSecondaryEntryPoints |-> p \in DOMAIN u /\ u[p],
                      entryPoints |-> n]]
  /\ target \in {<<p, "build">> : p \in {"cdk", "material"}}
  /\ status = [t \in Tasks |-> "idle"]
  /\ step = [t \in Tasks |-> 0]
  /\ stopped = FALSE
  /\ tscResult = [p \in Packages |-> NoTsc]
  /\ bundleResult = [p \in Packages |-> NoBundles]

NextBuild ==
  \/ \E t \in Tasks : StartTask(t)
  \/ \E t \in Tasks : SequenceStep(t)
  \/ \E t \in Tasks : SequenceFail(t)
  \/ \E t \in Tasks : DepsDone(t)
  \/ \E t \in Tasks, ok \in BOOLEAN : FinishFn(t, ok)
  \/ \E p \in Packages, ok \in BOOLEAN : TscPrimary(p, ok)
  \/ \E p \in Packages, i \in 1..MaxEntryPoints, ok \in BOOLEAN : TscSecondary(p, i, ok)
  \/ \E p \in Packages, which \in {"primary", "secondary"}, ok \in BOOLEAN :
       BundlesDone(p, which, ok)

SpecBuild == InitBuild /\ [][NextBuild]_vars

(***************************************************************************)
(* One run of the build or build-tests target of a package that requires   *)
(* other packages: material-examples on top of cdk and material, or on top *)
(* of material that is itself on top of cdk.                               *)
(***************************************************************************)
InitDependencies ==
  /\ InitOption
  /\ \E d \in {[m |-> <<>>, e |-> <<"cdk", "material">>],
                [m |-> <<"cdk">>, e |-> <<"material">>]},
        n \in 0..MaxEntryPoints, u \in BOOLEAN :
       packages = [p \in Packages |->
                     [dependencies |-> CASE p = "material" -> d.m
                                         [] p = "material-examples" -> d.e
                                         [] OTHER -> <<>>,
                      useSecondaryEntryPoints |-> p = "cdk" /\ u,
                      entryPoints |-> n]]
  /\ target \in {<<"material-examples", "build">>,
                 <<"material-examples", "build-tests">>}
  /\ status = [t \in Tasks |-> "idle"]
  /\ step = [t \in Tasks |-> 0]
  /\ stopped = FALSE
  /\ tscResult = [p \in Packages |-> NoTsc]
  /\ bundleResult = [p \in Packages |-> NoBundles]

SpecDependencies == InitDependencies /\ [][NextBuild]_vars

(***************************************************************************)
(* One run of a release or clean target of material, alone or on top of    *)
(* cdk.                                                                    *)
(***************************************************************************)
InitRelease ==
  /\ InitOption
  /\ \E d \in {<<>>, <<"cdk">>}, n \in 0..MaxEntryPoints, u \in BOOLEAN :
       packages = [p \in Packages |->
                     [dependencies |-> IF p = "material" THEN d ELSE <<>>,
                      useSecondaryEntryPoints |-> p = "material" /\ u,
                      entryPoints |-> n]]
  /\ target \in {<<"material", "build-release">>,
                 <<"material", "build-release:clean">>,
                 <<"material", "clean-build">>}
  /\ status = [t \in Tasks |-> "idle"]
  /\ step = [t \in Tasks |-> 0]
  /\ stopped = FALSE
  /\ tscResult = [p \in Packages |-> NoTsc]
  /\ bundleResult = [p \in Packages |-> NoBundles]

SpecRelease == InitRelease /\ [][NextBuild]_vars

(***************************************************************************)
(* Properties of the option widget, stated on the state an operation       *)
(* leaves and on what `last` recorded of it.                               *)
(***************************************************************************)
\* the last operation was a click, or a keydown of Enter or Space
Interactive ==
  \/ last.op = "click"
  \/ last.op = "keydown" /\ last.keyCode \in {ENTER, SPACE}

\* the own flag or the parent group's flag of instance o is set
FlaggedDisabled(o) ==
  options[o]._disabled \/ (options[o].group = TheGroup /\ optgroup.disabled)

\* C1: a click or an Enter/Space keydown on an option whose own disabled flag
\* or whose group's disabled flag is set leaves selected as it was and emits
\* no selection-change event, whatever the mode and the previous value.
C1_DisabledIgnoresInteraction ==
  (Interactive /\ FlaggedDisabled(last.opt)) =>
    /\ options[last.opt]._selected = last.pre.option._selected
    /\ last.emitted = <<>>

C1_Witness ==
  /\ last.op = "keydown" /\ last.keyCode = SPACE
  /\ ~options[last.opt]._disabled
  /\ options[last.opt].group = TheGroup /\ optgroup.disabled
  /\ options[last.opt]._multiple
  /\ last.pre.option._selected

\* C2: the disabled value of every option is true whenever its own flag or
\* its group's flag is true, and false only when the own flag is false and
\* there is no group or the group's flag is false.
C2_DisabledDerivation ==
  \A o \in DOMAIN options :
    /\ disabled(o) \in BOOLEAN
    /\ (options[o]._disabled \/ (options[o].group = TheGroup /\ optgroup.disabled))
         => disabled(o) = TRUE
    /\ disabled(o) = FALSE =>
         /\ ~options[o]._disabled
         /\ options[o].group = NoGroup \/ ~optgroup.disabled

C2_Witness ==
  \E o \in DOMAIN options :
    /\ last.op = "set disabled" /\ last.opt = o
    /\ last.pre.option._disabled /\ ~options[o]._disabled
    /\ options[o].group = TheGroup /\ optgroup.disabled
    /\ disabled(o)

\* C3: in single mode, select() or an interactive selection of an enabled
\* option that is already selected leaves the option exactly as it was, and
\* no interactive selection in single mode turns selected from true to false.
C3_SingleSelectIdempotent ==
  /\ ( /\ last.op = "select" \/ (Interactive /\ ~FlaggedDisabled(last.opt))
       /\ ~last.pre.option._multiple
       /\ last.pre.option._selected )
     => options[last.opt] = last.pre.option
  /\ (Interactive /\ ~options[last.opt]._multiple /\ last.pre.option._selected)
     => options[last.opt]._selected

C3_Witness ==
  /\ last.op = "click"
  /\ ~FlaggedDisabled(last.opt)
  /\ ~options[last.opt]._multiple
  /\ last.pre.option._selected
  /\ last.emitted # <<>>

\* C4: in multiple mode an interactive selection of an option that is not
\* disabled negates selected, and the second of two consecutive ones restores
\* the value selected had before the first.
C4_MultipleToggles ==
  (Interactive /\ options[last.opt]._multiple /\ ~FlaggedDisabled(last.opt)) =>
    /\ options[last.opt]._selected = ~last.pre.option._selected
    /\ prior.opt = last.opt => options[last.opt]._selected = prior.selected

C4_Witness ==
  /\ Interactive
  /\ options[last.opt]._multiple /\ ~FlaggedDisabled(last.opt)
  /\ prior.opt = last.opt
  /\ prior.selected

\* what a click leaves of an option and emits, given the option as it was
ClickOutcome(o, pre) ==
  IF pre.option._disabled \/ (pre.option.group = TheGroup /\ optgroup.disabled)
    THEN [option |-> pre.option, emitted |-> <<>>]
    ELSE LET sel == IF pre.option._multiple THEN ~pre.option._selected ELSE TRUE
         IN [option |-> [pre.option EXCEPT !._selected = sel],
             emitted |-> <<[emitter |-> o,
                            event |-> [source |-> o, isUserInput |-> TRUE],
                            seen |-> sel]>>]

\* C5: a keydown of Enter or Space leaves the option and emits the events a
\* click from the same state does, and calls preventDefault; a keydown of
\* any other key changes nothing, emits nothing and does not call it.
C5_KeyboardActivation ==
  /\ Interactive =>
       /\ options[last.opt] = ClickOutcome(last.opt, last.pre).option
       /\ last.emitted = ClickOutcome(last.opt, last.pre).emitted
       /\ last.prevented = (last.op = "keydown")
  /\ (last.op = "keydown" /\ last.keyCode \notin {ENTER, SPACE}) =>
       /\ options[last.opt] = last.pre.option
       /\ last.emitted = <<>>
       /\ last.marks = 0
       /\ ~last.prevented

C5_Witness ==
  /\ last.op = "keydown" /\ last.keyCode = SPACE
  /\ last.prevented
  /\ last.emitted # <<>>
  /\ options[last.opt]._multiple
  /\ ~options[last.opt]._selected

\* C6: no two instances have the same id, and the id of an instance is at
\* all times the one made from the counter when it was created.
C6_DistinctIds ==
  /\ \A i, j \in DOMAIN options : i # j => id(i) # id(j)
  /\ \A i \in DOMAIN options : id(i) = <<"md-option-", i - 1>>

C6_Witness ==
  /\ Len(options) = MaxOptions
  /\ last.op \in {"select", "set disabled", "click"}
  /\ last.opt = 1

\* C7: every event names the emitting option as its source; events of
\* select() and deselect() have isUserInput false, events of a click or an
\* Enter/Space keydown have it true.
C7_EventSourceAndOrigin ==
  \A k \in DOMAIN last.emitted :
    /\ last.emitted[k].event.source = last.emitted[k].emitter
    /\ last.emitted[k].emitter = last.opt
    /\ last.op \in {"select", "deselect"} => ~last.emitted[k].event.isUserInput
    /\ Interactive => last.emitted[k].event.isUserInput
    /\ last.op \in {"select", "deselect"} \/ Interactive

C7_Witness ==
  /\ last.op = "keydown"
  /\ last.opt = 2
  /\ Len(last.emitted) = 1
  /\ last.emitted[1].event.isUserInput

\* C8: an operation that changes selected emits exactly one event, and the
\* listener reading source.selected during the emission sees the new value.
C8_ChangeEmitsOnce ==
  ( /\ last.op \in {"select", "deselect", "click", "keydown"}
    /\ options[last.opt]._selected # last.pre.option._selected )
  => /\ Len(last.emitted) = 1
     /\ last.emitted[1].emitter = last.opt
     /\ last.emitted[1].seen = options[last.opt]._selected

C8_Witness ==
  /\ last.op = "deselect"
  /\ last.pre.option._selected
  /\ ~options[last.opt]._selected
  /\ Len(last.emitted) = 1

\* C9 as claimed: every operation that emits a selection-change event has
\* changed selected.
C9_EmitsOnlyOnChange ==
  last.emitted # <<>> =>
    options[last.opt]._selected # last.pre.option._selected

\* C9 as amended: an event is emitted only by select(), deselect() or an
\* interactive selection of an option that is not disabled, and selected
\* differs from before except where the value assigned is the old one:
\* select() of a selected option, deselect() of an unselected one, a
\* single-mode interactive selection of a selected one.
C9_EmitsOnlyOnAssignment ==
  last.emitted # <<>> =>
    /\ \/ last.op \in {"select", "deselect"}
       \/ Interactive /\ ~FlaggedDisabled(last.opt)
    /\ \/ options[last.opt]._selected # last.pre.option._selected
       \/ last.op = "select" /\ last.pre.option._selected
       \/ last.op = "deselect" /\ ~last.pre.option._selected
       \/ Interactive /\ ~options[last.opt]._multiple /\ last.pre.option._selected

C9_Witness ==
  /\ last.op = "select"
  /\ last.pre.option._selected
  /\ options[last.opt]._selected
  /\ Len(last.emitted) = 1

(***************************************************************************)
(* Properties of the package build.                                        *)
(***************************************************************************)
\* C10: in a run of `${packageName}:build`, assets:inline has started only
\* if build:esm (the primary compilation and, with useSecondaryEntryPoints,
\* every secondary one) and assets (scss, copy-styles, html) have completed,
\* and build:bundles has started only if assets:inline has completed.
C10_BuildOrder ==
  \A p \in Packages :
    /\ status[<<p, "assets:inline">>] # "idle" =>
         /\ status[<<p, "build:esm">>] = "ok"
         /\ tscResult[p].primary = "resolved"
         /\ packages[p].useSecondaryEntryPoints =>
              \A i \in SecondaryEntryPoints(p) :
                i \in DOMAIN tscResult[p].secondary
                  /\ tscResult[p].secondary[i] = "resolved"
         /\ \A n \in {"assets", "assets:scss", "assets:copy-styles", "assets:html"} :
              status[<<p, n>>] = "ok"
    /\ status[<<p, "build:bundles">>] # "idle" =>
         status[<<p, "assets:inline">>] = "ok"

C10_Witness ==
  \E p \in Packages :
    /\ target = <<p, "build">>
    /\ packages[p].useSecondaryEntryPoints
    /\ packages[p].entryPoints = MaxEntryPoints
    /\ status[<<p, "build:bundles">>] = "running"
    /\ status[<<p, "build">>] = "waiting"

\* the tasks `${p}:build` or `${p}:build-tests` runs after the required packages
OwnSteps(p, kind) ==
  {<<p, n>> : n \in {"assets", "assets:scss", "assets:copy-styles", "assets:html",
                     "assets:inline"}}
  \cup (IF kind = "build"
          THEN {<<p, "build:esm">>, <<p, "build:bundles">>}
          ELSE {<<p, "build:esm:tests">>})

\* C11: while `${p}:build` (or `${p}:build-tests`) runs, the build (or
\* build-tests) task of a required package has started only if those of the
\* packages before it in the dependencies list have completed, and a step of
\* the package itself has started only if those of all of them have completed.
C11_DependenciesFirst ==
  \A p \in Packages, kind \in {"build", "build-tests"} :
    status[<<p, kind>>] # "idle" =>
      LET deps == packages[p].dependencies
      IN /\ \A i \in DOMAIN deps :
              status[<<deps[i], kind>>] # "idle" =>
                \A j \in 1..(i - 1) : status[<<deps[j], kind>>] = "ok"
         /\ \A t \in OwnSteps(p, kind) :
              status[t] # "idle" =>
                \A i \in DOMAIN deps : status[<<deps[i], kind>>] = "ok"

C11_Witness ==
  /\ target = <<"material-examples", "build-tests">>
  /\ packages["material-examples"].dependencies = <<"cdk", "material">>
  /\ status[<<"cdk", "build-tests">>] = "ok"
  /\ status[<<"material", "build-tests">>] = "ok"
  /\ status[<<"material-examples", "build:esm:tests">>] = "running"

\* the tsc compilations of package p that are in progress
TscInProgress(p) ==
  {<<p, i>> : i \in {k \in DOMAIN tscResult[p].secondary :
                       tscResult[p].secondary[k] = "pending"}}
  \cup (IF tscResult[p].primary = "pending" THEN {<<p, 0>>} ELSE {})

\* C12: at most one secondary entry point of a package is being compiled at
\* a time, the compilations start in list order, each only after the one
\* before it has finished, and the only other compilation in progress
\* meanwhile is that of the primary entry point of the same package.
C12_SecondarySequential ==
  \A p \in Packages :
    LET sec == tscResult[p].secondary
    IN /\ DOMAIN sec \subseteq SecondaryEntryPoints(p)
       /\ Cardinality({i \in DOMAIN sec : sec[i] = "pending"}) <= 1
       /\ \A i \in DOMAIN sec : \A j \in 1..(i - 1) : sec[j] = "resolved"
       /\ (\E i \in DOMAIN sec : sec[i] = "pending") =>
            \A q \in Packages \ {p} : TscInProgress(q) = {}

C12_Witness ==
  \E p \in Packages :
    /\ packages[p].useSecondaryEntryPoints
    /\ tscResult[p].primary = "pending"
    /\ Len(tscResult[p].secondary) = 2
    /\ tscResult[p].secondary[1] = "resolved"
    /\ tscResult[p].secondary[2] = "pending"

\* C13: `${P}:build:bundles` of a package made with useSecondaryEntryPoints
\* bundles the secondary entry points of that same package P.
C13_BundlesOwnSecondaryEntryPoints ==
  \A p \in Packages :
    (packages[p].useSecondaryEntryPoints /\ bundleResult[p].primary # "none") =>
      bundleResult[p].secondaryOf = p

\* a failed compilation stays failed, and so does the build:esm it failed
C14_NoRetry ==
  \A p \in Packages :
    LET sec == tscResult[p].secondary
    IN /\ \A i \in DOMAIN sec :
            sec[i] = "rejected" =>
              /\ DOMAIN tscResult'[p].secondary = DOMAIN sec
              /\ tscResult'[p].secondary[i] = "rejected"
       /\ tscResult[p].primary = "rejected" => tscResult'[p].primary = "rejected"
       /\ status[<<p, "build:esm">>] = "failed" =>
            /\ status'[<<p, "build:esm">>] = "failed"
            /\ tscResult'[p].error = tscResult[p].error

C14_ThatError ==
  \A p \in Packages :
    LET sec == tscResult[p].secondary
    IN /\ \A i \in DOMAIN sec :
            sec[i] = "rejected" =>
              /\ Len(sec) = i
              /\ status[<<p, "build:esm">>] = "failed"
              /\ tscResult[p].error = <<"secondary", i>>
       /\ tscResult[p].primary = "rejected" => status[<<p, "build:esm">>] = "failed"

\* C14 as claimed: once the compilation of a secondary entry point has
\* failed, no later one is started, it is not attempted again and build:esm
\* has failed with that error; once the primary compilation has failed,
\* build:esm has failed.
C14_FailsWithThatError == [][C14_NoRetry]_vars /\ []C14_ThatError

C14_FirstError ==
  \A p \in Packages :
    LET sec == tscResult[p].secondary
    IN /\ \A i \in DOMAIN sec :
            sec[i] = "rejected" =>
              /\ Len(sec) = i
              /\ status[<<p, "build:esm">>] = "failed"
              /\ \/ tscResult[p].error = <<"secondary", i>>
                 \/ /\ tscResult[p].error = <<"primary", 0>>
                    /\ tscResult[p].primary = "rejected"
       /\ tscResult[p].primary = "rejected" =>
            /\ status[<<p, "build:esm">>] = "failed"
            /\ tscResult[p].error # NoError

\* C14 as amended: as claimed, but the error build:esm has failed with is that
\* of the compilation that failed first, which is the primary one's when it
\* failed before the secondary one.
C14_FailsWithFirstError == [][C14_NoRetry]_vars /\ []C14_FirstError

C14_Witness ==
  \E p \in Packages :
    /\ packages[p].entryPoints = MaxEntryPoints
    /\ tscResult[p].primary = "resolved"
    /\ Len(tscResult[p].secondary) = 1
    /\ tscResult[p].secondary[1] = "rejected"
    /\ tscResult[p].error = <<"secondary", 1>>
    /\ status[<<p, "build:esm">>] = "failed"
    /\ status[<<p, "build">>] = "failed"

\* C15: composeRelease of build-release has started only when the build of
\* the package is done, its bundles included; in a run of build-release:clean
\* or clean-build, any other task has started only when clean is done.
C15_ReleaseFromFinishedBuild ==
  \A p \in Packages :
    /\ status[<<p, "build-release">>] \in {"running", "ok", "failed"} =>
         /\ status[<<p, "build">>] = "ok"
         /\ status[<<p, "build:bundles">>] = "ok"
    /\ \A s \in {<<p, "build-release:clean">>, <<p, "clean-build">>} :
         status[s] # "idle" =>
           \A t \in Tasks \ {s, CleanTask} :
             status[t] # "idle" => status[CleanTask] = "ok"

C15_Witness ==
  /\ target = <<"material", "build-release:clean">>
  /\ packages["material"].dependencies = <<"cdk">>
  /\ status[CleanTask] = "ok"
  /\ status[<<"material", "build">>] = "ok"
  /\ status[<<"material", "build-release">>] = "running"

(***************************************************************************)
(* Properties of the active styles, the tab index and the frame of the     *)
(* widget's operations.                                                    *)
(***************************************************************************)
\* the instance `last` ran on, with its _active put back as `last` found it
ActivePutBack ==
  [options[last.opt] EXCEPT !._active = last.pre.option._active]

\* C16: setActiveStyles() leaves active set and setInactiveStyles() leaves it
\* unset; each calls markForCheck exactly when it changed active, so a call
\* repeated changes nothing; neither changes selected, disabled or any other
\* field, nor emits an event; and no selection changes active.
C16_ActiveStyles ==
  /\ last.op \in {"setActiveStyles", "setInactiveStyles"} =>
       /\ options[last.opt]._active = (last.op = "setActiveStyles")
       /\ last.marks = IF options[last.opt]._active # last.pre.option._active
                         THEN 1 ELSE 0
       /\ ActivePutBack = last.pre.option
       /\ disabled(last.opt) = last.pre.disabled
       /\ last.emitted = <<>>
  /\ (last.op \in {"select", "deselect"} \/ Interactive) =>
       options[last.opt]._active = last.pre.option._active

C16_Witness ==
  /\ last.op = "setActiveStyles"
  /\ last.pre.option._active
  /\ last.pre.option._selected
  /\ last.marks = 0
  /\ options[last.opt] = last.pre.option

\* C17: the tab index of an option is "-1" exactly when its own disabled flag
\* or its parent group's disabled flag is set, and "0" otherwise.
C17_TabIndex ==
  \A o \in DOMAIN options :
    /\ _getTabIndex(o) \in {"-1", "0"}
    /\ _getTabIndex(o) = "-1" <=> FlaggedDisabled(o)

C17_Witness ==
  \E o \in DOMAIN options :
    /\ ~options[o]._disabled
    /\ options[o].group = TheGroup
    /\ optgroup.disabled
    /\ _getTabIndex(o) = "-1"

\* C18: select() leaves selected set and deselect() leaves it unset, whatever
\* the disabled value and the mode, and each emits exactly one event, from
\* the option itself, with isUserInput = false.
C18_ProgrammaticNotGated ==
  last.op \in {"select", "deselect"} =>
    /\ options[last.opt]._selected = (last.op = "select")
    /\ Len(last.emitted) = 1
    /\ last.emitted[1].emitter = last.opt
    /\ last.emitted[1].event = MdOptionSelectionChange(last.opt, FALSE)

C18_Witness ==
  /\ last.op = "deselect"
  /\ last.pre.disabled
  /\ last.pre.option._multiple
  /\ last.pre.option._selected
  /\ ~options[last.opt]._selected
  /\ Len(last.emitted) = 1

\* the operations that run on an instance and record how they found it
OnInstance == last.op \notin {"init", "new", "set group disabled"}

\* C19 as claimed: an operation that changed selected, active, multiple,
\* disableRipple or the own disabled flag called markForCheck.
C19_EveryChangeMarks ==
  OnInstance =>
    (options[last.opt] # last.pre.option => last.marks >= 1)

\* C19 as amended: an operation that changed selected, active, multiple or
\* disableRipple called markForCheck; set disabled assigns the own flag and
\* changes none of them.
C19_ChangeButDisabledMarks ==
  OnInstance =>
    /\ [options[last.opt] EXCEPT !._disabled = last.pre.option._disabled]
          # last.pre.option => last.marks >= 1
    /\ last.op = "set disabled" =>
         [options[last.opt] EXCEPT !._disabled = last.pre.option._disabled]
           = last.pre.option

C19_Witness ==
  /\ last.op = "setInactiveStyles"
  /\ last.pre.option._active
  /\ ~options[last.opt]._active
  /\ last.marks = 1

\* the operation of this step is one that assigns selected
SelectsNext ==
  \/ last'.op \in {"select", "deselect", "click"}
  \/ last'.op = "keydown" /\ last'.keyCode \in {ENTER, SPACE}

\* C20: a step of any operation other than select(), deselect() and an
\* interactive selection leaves the selected value of every option as it was
\* and emits no selection-change event.
C20_SelectedFrame ==
  [][~SelectsNext =>
       /\ \A o \in DOMAIN options : options'[o]._selected = options[o]._selected
       /\ last'.emitted = <<>>]_vars

C20_Witness ==
  /\ last.op = "set disabled"
  /\ last.pre.option._selected
  /\ ~last.pre.disabled
  /\ disabled(last.opt)
  /\ selected(last.opt)
====
